---- MODULE Spec2Model ----
(***************************************************************************)
(* Model of src/app.py: the amortization engine and the month-by-month ROI *)
(* simulation of ROICalculator, together with the part of main() that      *)
(* turns the form's values into the arguments of the ROICalculator         *)
(* constructor.                                                            *)
(*                                                                         *)
(* Numbers.  The program computes with Python floats.  The model computes  *)
(* with exact rationals [n |-> numerator, d |-> denominator], d > 0, in    *)
(* lowest terms, so that equal values are equal records.  Floating-point   *)
(* rounding is therefore abstracted away; every statement checked here is  *)
(* the exact-arithmetic statement.  Inputs are chosen so that every        *)
(* intermediate value fits the model checker's integers.                   *)
(***************************************************************************)
EXTENDS Integers, Sequences, FiniteSets, TLC

(***************************************************************************)
(* Bounds of the model.                                                    *)
(***************************************************************************)
MaxYears == 6       \* longest horizon (years) passed to calculate_detailed_roi
MaxTerm == 1        \* longest loan term (years)

(***************************************************************************)
(* Exact rational arithmetic standing for Python's float arithmetic.       *)
(***************************************************************************)
Abs(x) == IF x < 0 THEN -x ELSE x

GCDf[a \in Nat, b \in Nat] == IF b = 0 THEN a ELSE GCDf[b, a % b]

GCD(a, b) == GCDf[a, b]

Q(n, d) ==
    LET g == GCD(Abs(n), Abs(d))
        s == IF d < 0 THEN -1 ELSE 1
    IN  [n |-> s * (n \div g), d |-> s * (d \div g)]

R(i) == [n |-> i, d |-> 1]

Rat == [n : Int, d : Nat]

RAdd(x, y) ==
    LET g == GCD(x.d, y.d)
    IN  Q(x.n * (y.d \div g) + y.n * (x.d \div g), (x.d \div g) * y.d)

RNeg(x) == [n |-> -(x.n), d |-> x.d]

RSub(x, y) == RAdd(x, RNeg(y))

RMul(x, y) ==
    LET g1 == GCD(Abs(x.n), y.d)
        g2 == GCD(Abs(y.n), x.d)
    IN  Q((x.n \div g1) * (y.n \div g2), (x.d \div g2) * (y.d \div g1))

\* defined for y # 0 only; the callers raise ZeroDivisionError otherwise
RDiv(x, y) == RMul(x, Q(y.d, y.n))

RLt(x, y) == RSub(x, y).n < 0

RLe(x, y) == RSub(x, y).n <= 0

IPow[b \in Int, k \in Nat] == IF k = 0 THEN 1 ELSE b * IPow[b, k - 1]

\* a fraction in lowest terms stays in lowest terms when raised to a power
RPowNat(x, k) == [n |-> IPow[x.n, k], d |-> IPow[x.d, k]]

\* x ** k for an integer k (Python: a negative k gives the reciprocal)
RPowInt(x, k) == IF k >= 0 THEN RPowNat(x, k) ELSE RDiv(R(1), RPowNat(x, -k))

\* the sum of a sequence of rationals
RSum(s) ==
    LET from[k \in Nat, acc \in Rat] ==
            IF k > Len(s) THEN acc ELSE from[k + 1, RAdd(acc, s[k])]
    IN  from[1, R(0)]

(***************************************************************************)
(* ROICalculator.generate_amortization_schedule (src/app.py 305-323).      *)
(***************************************************************************)
\* line 307
monthly_interest_rate(annual_interest_rate) == RDiv(annual_interest_rate, R(12))

\* line 308
loan_months(loan_term_years) == loan_term_years * 12

\* (1 + monthly_interest_rate) ** months, the subterm of line 309
compound(mr, months) == RPowInt(RAdd(R(1), mr), months)

\* line 309; the divisor is zero exactly when Python raises ZeroDivisionError
payment_divisor(mr, months) == RSub(compound(mr, months), R(1))

\* (in exact arithmetic the product and the quotient associate freely; the
\* quotient is taken first to keep the intermediate values small)
monthly_payment(principal, mr, months) ==
    RMul(principal, RDiv(RMul(mr, compound(mr, months)), payment_divisor(mr, months)))

\* line 313, the mutant charges interest on the payment instead of the balance
interest_on_payment(remaining_principal, mr, payment) == RMul(payment, mr)

interest_payment(remaining_principal, mr, payment) == RMul(remaining_principal, mr)

\* line 314
principal_payment(payment, interest) == RSub(payment, interest)

\* lines 310-322: the rows from period k on, remaining_principal being the
\* balance before period k
schedule_rows(principal, mr, payment, months) ==
    LET rows[k \in Nat, remaining_principal \in Rat] ==
            IF k > months THEN <<>>
            ELSE LET interest == interest_payment(remaining_principal, mr, payment)
                     princ == principal_payment(payment, interest)
                     remaining == RSub(remaining_principal, princ)
                 IN  <<[month |-> k,
                        interest_payment |-> interest,
                        principal_payment |-> princ,
                        remaining_principal |-> remaining,
                        total_payment |-> payment]>>
                     \o rows[k + 1, remaining]
    IN  rows[1, principal]

\* lines 305-323: the schedule, or the ZeroDivisionError of line 309
generate_amortization_schedule(principal, annual_interest_rate, loan_term_years) ==
    LET mr == monthly_interest_rate(annual_interest_rate)
        months == loan_months(loan_term_years)
    IN  IF payment_divisor(mr, months) = R(0)
        THEN [status |-> "ZeroDivisionError", schedule |-> <<>>]
        ELSE [status |-> "ok",
              schedule |-> schedule_rows(principal, mr,
                                         monthly_payment(principal, mr, months),
                                         months)]

(***************************************************************************)
(* x ** year with year = month / 12 (lines 406, 407, 446, 447).  A whole   *)
(* number of years is an integer power; otherwise the value is rational    *)
(* only when x has a rational twelfth root, and the inputs of the model    *)
(* are restricted to such x.                                               *)
(***************************************************************************)
Roots == {R(0), R(1), Q(1, 2), R(2)}

Root12(x) == CHOOSE q \in Roots : RPowNat(q, 12) = x

\* the mutant counts whole years only, as month // 12 would
pow_whole_year(x, month) == RPowInt(x, month \div 12)

pow_year(x, month) ==
    IF month % 12 = 0 THEN RPowInt(x, month \div 12)
    ELSE RPowNat(Root12(x), month)

(***************************************************************************)
(* AEMOPricing (lines 60-74).                                              *)
(***************************************************************************)
AEMOPricing ==
    [tariff_rates |-> [peak |-> Q(30, 100), off_peak |-> Q(15, 100)],
     feed_in_tariff |-> Q(10, 100)]

default_efficiency == Q(95, 100)

\* the mutant adds the two tariffs instead of taking their spread
arbitrage_on_tariff_sum(pricing, battery_capacity, efficiency) ==
    LET daily_cycles == R(1)
        daily_savings ==
            RMul(RMul(RMul(daily_cycles, battery_capacity), efficiency),
                 RAdd(pricing.tariff_rates.peak, pricing.tariff_rates.off_peak))
    IN  RMul(daily_savings, R(30))

calculate_arbitrage_potential(pricing, battery_capacity, efficiency) ==
    LET daily_cycles == R(1)
        daily_savings ==
            RMul(RMul(RMul(daily_cycles, battery_capacity), efficiency),
                 RSub(pricing.tariff_rates.peak, pricing.tariff_rates.off_peak))
    IN  RMul(daily_savings, R(30))

(***************************************************************************)
(* The values the model draws its inputs from.  Money is in arbitrary      *)
(* units; the amounts are chosen so that the loan payments stay small      *)
(* fractions.                                                              *)
(***************************************************************************)
\* the form of main(), lines 659-690: rates are entered as percentages
Forms ==
    {[interest_rate |-> Q(35, 10), loan_term_years |-> 10,
      ev_battery_degradation |-> R(1), solar_degradation |-> Q(5, 10),
      battery_degradation |-> R(1),
      power_price_inflation |-> R(5), fuel_price_inflation |-> R(5)],
     [interest_rate |-> R(0), loan_term_years |-> 1,
      ev_battery_degradation |-> R(0), solar_degradation |-> R(0),
      battery_degradation |-> R(0),
      power_price_inflation |-> R(0), fuel_price_inflation |-> R(0)],
     [interest_rate |-> R(10), loan_term_years |-> 30,
      ev_battery_degradation |-> R(10), solar_degradation |-> R(10),
      battery_degradation |-> R(10),
      power_price_inflation |-> R(10), fuel_price_inflation |-> R(10)]}

InterestRates == {R(0), R(12)}      \* annual rates as fractions: 0 and 1200%

DegradationRates == {R(0), R(1)}    \* annual degradation as a fraction

LoanTerms == 1..MaxTerm

Horizons == (-1)..MaxYears

EVPackages ==
    {[base_price |-> R(p), depreciation_rate |-> R(50),
      battery_capacity |-> R(40), energy_consumption_per_km |-> Q(15, 100)]
        : p \in {255, -255}}
    \cup
    {[base_price |-> R(255), depreciation_rate |-> R(0),
      battery_capacity |-> R(40), energy_consumption_per_km |-> Q(15, 100)]}

BatteryPackages ==
    {[capacity |-> R(c), base_price |-> R(100)] : c \in {40, 0, -40}}

SolarPackages == {[capacity |-> R(5), base_price |-> R(150)]}

UsageProfiles ==
    {[daily_commute |-> R(80), power_bill |-> R(5), fuel_cost |-> R(3)]}

\* the attribute values a configured calculator carries
Configs ==
    {[aemo_pricing |-> AEMOPricing,
      interest_rate |-> i,
      loan_term_years |-> t,
      installation_costs |->
          [solar |-> [base |-> R(1), per_kw |-> R(1), inverter |-> R(1)],
           battery |-> [base |-> R(1), wiring |-> R(1)]],
      maintenance_costs |->
          [ev |-> [annual_service |-> R(12), tires |-> R(48),
                   insurance |-> R(12), registration |-> R(12),
                   battery_degradation |-> R(0)],
           solar |-> [cleaning |-> R(12), inverter_replacement |-> R(120),
                      degradation |-> ds],
           battery |-> [annual_check |-> R(12), degradation |-> db]],
      solar_rebate_per_kw |-> Q(1, 5),
      battery_rebate |-> R(3),
      power_price_inflation |-> R(0),
      fuel_price_inflation |-> R(0)]
        : i \in InterestRates, t \in LoanTerms,
          ds \in DegradationRates, db \in DegradationRates}

\* degradation rates with a factor that changes from month to month:
\* 1 - 4095/4096 is (1/2) ** 12
FadeRates == {R(0), R(1), Q(4095, 4096)}

\* configured calculators with those rates, a one-year loan at rate 12
FadeConfigs ==
    {[c EXCEPT !.maintenance_costs.solar.degradation = ds,
               !.maintenance_costs.battery.degradation = db]
        : c \in {x \in Configs : /\ x.interest_rate = R(12)
                                 /\ x.loan_term_years = 1},
          ds \in FadeRates, db \in FadeRates}

\* horizons short enough for the factors of FadeRates to stay representable
FadeHorizons == {0, 1}

ConfigAttributes ==
    {"aemo_pricing", "interest_rate", "loan_term_years", "installation_costs",
     "maintenance_costs", "solar_rebate_per_kw", "battery_rebate",
     "power_price_inflation", "fuel_price_inflation"}

\* direct calls of calculate_arbitrage_potential
Capacities == {R(0), R(10), Q(27, 2), R(40)}

Efficiencies == {default_efficiency, R(1), Q(9, 10)}

\* direct calls of generate_amortization_schedule
Principals == {R(-255), R(0), R(255), R(1200)}

ScheduleTerms == (-1)..MaxTerm

(***************************************************************************)
(* State.                                                                  *)
(***************************************************************************)
VARIABLES
    pc,               \* position of the program
    error,            \* the exception that ended the call, "none" if none
    am_in,            \* arguments of a direct generate_amortization_schedule call
    am_out,           \* its result
    form,             \* the values entered in the form of main()
    ctor_args,        \* the arguments main() hands to ROICalculator(...)
    self,             \* the calculator object: attribute name -> value
    ev, battery, solar, usage_profile, years,   \* arguments of calculate_detailed_roi
    month,            \* loop variable of calculate_detailed_roi
    loan_schedule,    \* solar/battery loan schedule
    ev_principal,     \* financed amount of the current EV
    ev_loan_schedule, \* EV loan schedule
    monthly_data,     \* the records appended so far
    previous,         \* <<result>> of the first call once a second call began
    waterfall,        \* what visualize_monthly_breakdown built
    df_roi,           \* the per-month columns main() derives from the result
    df_annual,        \* the annual rollup main() derives from df_roi
    aemo,             \* the AEMOPricing object
    arb_in,           \* arguments of a direct calculate_arbitrage_potential call
    arb_out           \* its result

vars == <<pc, error, am_in, am_out, form, ctor_args, self, ev, battery, solar,
          usage_profile, years, month, loan_schedule, ev_principal,
          ev_loan_schedule, monthly_data, previous, waterfall, df_roi,
          df_annual, aemo, arb_in, arb_out>>

view_vars == <<waterfall, df_roi, df_annual>>

arb_vars == <<aemo, arb_in, arb_out>>

call_vars == <<ev, battery, solar, usage_profile, years>>

loop_vars == <<month, loan_schedule, ev_principal, ev_loan_schedule, monthly_data>>

main_vars == <<form, ctor_args, self>>

Init ==
    /\ pc = "idle"
    /\ error = "none"
    /\ am_in = <<>>
    /\ am_out = <<>>
    /\ form = <<>>
    /\ ctor_args = <<>>
    /\ self = <<>>
    /\ ev = <<>>
    /\ battery = <<>>
    /\ solar = <<>>
    /\ usage_profile = <<>>
    /\ years = 0
    /\ month = 0
    /\ loan_schedule = <<>>
    /\ ev_principal = R(0)
    /\ ev_loan_schedule = <<>>
    /\ monthly_data = <<>>
    /\ previous = <<>>
    /\ waterfall = <<>>
    /\ df_roi = <<>>
    /\ df_annual = <<>>
    /\ aemo = AEMOPricing
    /\ arb_in = <<>>
    /\ arb_out = <<>>

(***************************************************************************)
(* A direct call schedule(principal, rate, term) of lines 305-323.         *)
(***************************************************************************)
Schedule(p, r, t) ==
    /\ pc = "idle"
    /\ am_in' = [principal |-> p, annual_interest_rate |-> r, loan_term_years |-> t]
    /\ am_out' = generate_amortization_schedule(p, r, t)
    /\ pc' = "schedule_done"
    /\ error' = IF am_out'.status = "ok" THEN "none" ELSE am_out'.status
    /\ UNCHANGED <<main_vars, call_vars, loop_vars, previous, view_vars, arb_vars>>

(***************************************************************************)
(* A direct call aemo.calculate_arbitrage_potential(capacity, efficiency)  *)
(* of lines 66-74.                                                         *)
(***************************************************************************)
Arbitrage(c, eff) ==
    /\ pc = "idle"
    /\ arb_in' = [battery_capacity |-> c, efficiency |-> eff]
    /\ arb_out' = calculate_arbitrage_potential(aemo, c, eff)
    /\ pc' = "arbitrage_done"
    /\ UNCHANGED <<error, am_in, am_out, main_vars, call_vars, loop_vars,
                   previous, view_vars, aemo>>

(***************************************************************************)
(* main(), lines 692-735: the dictionaries built from the form and the     *)
(* construction of the calculator; ROICalculator.__init__, lines 205-217.  *)
(***************************************************************************)
\* lines 705-722: only the degradation rates are divided by 100
main_maintenance_costs(f) ==
    [ev |-> [annual_service |-> R(200), tires |-> R(800), insurance |-> R(1200),
             registration |-> R(800),
             battery_degradation |-> RDiv(f.ev_battery_degradation, R(100))],
     solar |-> [cleaning |-> R(200), inverter_replacement |-> R(2000),
                degradation |-> RDiv(f.solar_degradation, R(100))],
     battery |-> [annual_check |-> R(150),
                  degradation |-> RDiv(f.battery_degradation, R(100))]]

\* lines 693-703
main_installation_costs ==
    [solar |-> [base |-> R(1000), per_kw |-> R(600), inverter |-> R(2000)],
     battery |-> [base |-> R(1500), wiring |-> R(1000)]]

\* lines 725-735
main_ctor_args(f) ==
    [aemo_pricing |-> AEMOPricing,
     interest_rate |-> f.interest_rate,
     loan_term_years |-> f.loan_term_years,
     installation_costs |-> main_installation_costs,
     maintenance_costs |-> main_maintenance_costs(f),
     solar_rebate_per_kw |-> R(700),
     battery_rebate |-> R(4000),
     power_price_inflation |-> f.power_price_inflation,
     fuel_price_inflation |-> f.fuel_price_inflation]

\* lines 205-217: the constructor stores none of its arguments
ROICalculator_init(args) ==
    [ice_vehicle |-> [base_price |-> R(45000), fuel_consumption |-> Q(85, 10),
                      annual_service |-> R(800), depreciation_rate |-> Q(15, 100),
                      insurance |-> R(1000), registration |-> R(800)],
     tax_benefits |-> [gst_rate |-> Q(10, 100), fbt_rate |-> Q(47, 100),
                       business_use_percentage |-> Q(80, 100),
                       tax_bracket |-> Q(37, 100)]]

Main(f) ==
    /\ pc = "idle"
    /\ form' = f
    /\ ctor_args' = main_ctor_args(f)
    /\ self' = ROICalculator_init(ctor_args')
    /\ pc' = "constructed"
    /\ UNCHANGED <<error, am_in, am_out, call_vars, loop_vars, previous,
                   view_vars, arb_vars>>

(***************************************************************************)
(* The configuration attributes calculate_detailed_roi reads are assigned  *)
(* nowhere in the source.  So that the simulation itself can be examined,  *)
(* the model lets the calculator's owner assign them to the constructed    *)
(* object (FinancialAssumptions of the specification).                     *)
(***************************************************************************)
HasConfig(obj) == ConfigAttributes \subseteq DOMAIN obj

SetAttributes(cfg) ==
    /\ pc = "constructed"
    /\ ~HasConfig(self)
    /\ self' = [a \in DOMAIN self \cup DOMAIN cfg |->
                    IF a \in DOMAIN cfg THEN cfg[a] ELSE self[a]]
    /\ UNCHANGED <<pc, error, am_in, am_out, form, ctor_args, call_vars,
                   loop_vars, previous, view_vars, arb_vars>>


(***************************************************************************)
(* ROICalculator.calculate_detailed_roi, lines 325-477 (the second         *)
(* definition of that name in the class, which replaces the first).        *)
(***************************************************************************)
\* lines 300-303
get_total_rebates(obj, solar_capacity, battery_capacity) ==
    RAdd(RMul(solar_capacity, obj.solar_rebate_per_kw), obj.battery_rebate)

\* lines 283-298
calculate_total_installation_cost(obj, solar_capacity, battery_capacity) ==
    LET solar_install ==
            RAdd(RAdd(obj.installation_costs.solar.base,
                      RMul(obj.installation_costs.solar.per_kw, solar_capacity)),
                 obj.installation_costs.solar.inverter)
        battery_install ==
            RAdd(obj.installation_costs.battery.base,
                 obj.installation_costs.battery.wiring)
    IN  RSub(RAdd(solar_install, battery_install),
             get_total_rebates(obj, solar_capacity, battery_capacity))

\* lines 335-341
total_principal(obj, b, s) ==
    RAdd(RAdd(b.base_price, s.base_price),
         calculate_total_installation_cost(obj, s.capacity, b.capacity))

\* line 326, the mutant runs the loop one month too far
months_plus_one(y) == y * 12 + 1

months_of(y) == y * 12

\* line 361
ev_replacement_month == 60

\* line 367; the mutant replaces the EV at the start of every later year
replacement_every_year(m) == m > 0 /\ m % 12 = 0

replacement_due(m) == m = ev_replacement_month

\* lines 369-374: the financed amount of the replacement EV
replacement_principal(e) ==
    LET old_ev_value ==
            RMul(e.base_price,
                 RPowInt(RSub(R(1), RDiv(e.depreciation_rate, R(100))), 5))
        trade_in_value == old_ev_value
    IN  RSub(e.base_price, trade_in_value)

\* lines 384-392 and 395-403: schedule[month] of a 0-based list, else 0; the
\* mutant reads the entry after it
payment_after(schedule, m) ==
    IF m + 1 < Len(schedule) THEN schedule[m + 2].total_payment ELSE R(0)

payment_at(schedule, m) ==
    IF m < Len(schedule) THEN schedule[m + 1].total_payment ELSE R(0)

\* lines 410-422
maintenance_of(obj) ==
    [ev_maintenance |->
        RAdd(RAdd(RAdd(RDiv(obj.maintenance_costs.ev.annual_service, R(12)),
                       RDiv(obj.maintenance_costs.ev.tires, R(4 * 12))),
                  RDiv(obj.maintenance_costs.ev.insurance, R(12))),
             RDiv(obj.maintenance_costs.ev.registration, R(12))),
     solar_maintenance |->
        RAdd(RDiv(obj.maintenance_costs.solar.cleaning, R(12)),
             RDiv(obj.maintenance_costs.solar.inverter_replacement, R(10 * 12))),
     battery_maintenance |->
        RDiv(obj.maintenance_costs.battery.annual_check, R(12))]

\* sum(maintenance.values()), lines 456 and 466
sum_maintenance(mt) ==
    RAdd(RAdd(mt.ev_maintenance, mt.solar_maintenance), mt.battery_maintenance)

\* lines 425-438
total_ev_charging_cost_of(obj, e, u) ==
    LET monthly_km_driven == RMul(u.daily_commute, R(30))
        monthly_ev_energy_consumption ==
            RMul(monthly_km_driven, e.energy_consumption_per_km)
        solar_ev_charging_percentage == Q(1, 2)
        solar_ev_energy_consumption ==
            RMul(monthly_ev_energy_consumption, solar_ev_charging_percentage)
        grid_ev_energy_consumption ==
            RMul(monthly_ev_energy_consumption,
                 RSub(R(1), solar_ev_charging_percentage))
        solar_ev_charging_cost ==
            RMul(solar_ev_energy_consumption, obj.aemo_pricing.feed_in_tariff)
        grid_ev_charging_cost ==
            RMul(grid_ev_energy_consumption, obj.aemo_pricing.tariff_rates.off_peak)
    IN  RAdd(solar_ev_charging_cost, grid_ev_charging_cost)

\* lines 406-407
battery_capacity_factor_of(obj, m) ==
    pow_year(RSub(R(1), obj.maintenance_costs.battery.degradation), m)

solar_output_factor_of(obj, m) ==
    pow_year(RSub(R(1), obj.maintenance_costs.solar.degradation), m)

\* lines 441-449
energy_benefits_of(obj, e, b, s, u, m) ==
    [arbitrage |->
        calculate_arbitrage_potential(obj.aemo_pricing,
            RMul(b.capacity, battery_capacity_factor_of(obj, m)),
            default_efficiency),
     solar_export |->
        RMul(RMul(RMul(RMul(s.capacity, solar_output_factor_of(obj, m)), R(4)),
                  R(30)),
             obj.aemo_pricing.feed_in_tariff),
     power_savings |->
        RMul(RMul(u.power_bill, Q(8, 10)),
             pow_year(RAdd(R(1), obj.power_price_inflation), m)),
     fuel_savings |->
        RMul(u.fuel_cost, pow_year(RAdd(R(1), obj.fuel_price_inflation), m)),
     v2g_revenue |->
        RMul(RMul(RMul(obj.aemo_pricing.feed_in_tariff, e.battery_capacity),
                  Q(1, 10)),
             R(30))]

\* sum(energy_benefits.values())
sum_benefits(eb) ==
    RAdd(RAdd(RAdd(RAdd(eb.arbitrage, eb.solar_export), eb.power_savings),
              eb.fuel_savings),
         eb.v2g_revenue)

\* line 454, the mutant forgets to take the EV charging cost off the benefits
total_benefits_gross(eb, charging) == sum_benefits(eb)

total_benefits_of(eb, charging) == RSub(sum_benefits(eb), charging)

\* line 456
total_costs_of(loan_payment, ev_loan_payment, mt) ==
    RAdd(RAdd(loan_payment, ev_loan_payment), sum_maintenance(mt))

\* lines 383-475: the record of month m under the given schedules
monthly_record(obj, e, b, s, u, m, ls, els) ==
    LET loan_payment == payment_at(ls, m)
        ev_loan_payment == payment_at(els, m)
        maintenance == maintenance_of(obj)
        charging == total_ev_charging_cost_of(obj, e, u)
        energy_benefits == energy_benefits_of(obj, e, b, s, u, m)
        total_benefits == total_benefits_of(energy_benefits, charging)
        total_costs == total_costs_of(loan_payment, ev_loan_payment, maintenance)
    IN  [month |-> m,
         year |-> Q(m, 12),
         costs |-> [loan_payment |-> loan_payment,
                    ev_loan_payment |-> ev_loan_payment,
                    maintenance |-> sum_maintenance(maintenance),
                    maintenance_breakdown |-> maintenance,
                    ev_charging_cost |-> charging],
         benefits |-> energy_benefits,
         net_fuel_savings |-> RSub(energy_benefits.fuel_savings, charging),
         battery_health |-> RMul(battery_capacity_factor_of(obj, m), R(100)),
         solar_health |-> RMul(solar_output_factor_of(obj, m), R(100)),
         net_position |-> RSub(total_benefits, total_costs)]

Raise(exc) ==
    /\ pc' = "raised"
    /\ error' = exc

\* line 327: every call starts from an empty list; the mutant goes on with the
\* list of the call before
kept_monthly_data(old) == old

new_monthly_data(old) == <<>>

\* lines 325-361: everything before the month loop
Begin(e, b, s, u, y) ==
    /\ ev' = e
    /\ battery' = b
    /\ solar' = s
    /\ usage_profile' = u
    /\ years' = y
    /\ UNCHANGED <<am_in, am_out, main_vars, view_vars, arb_vars>>
    /\ IF ~HasConfig(self)
       THEN \* line 285: self.installation_costs does not exist
            /\ Raise("AttributeError")
            /\ UNCHANGED loop_vars
       ELSE LET ls == generate_amortization_schedule(
                          total_principal(self, b, s),
                          self.interest_rate, self.loan_term_years)
                els == generate_amortization_schedule(
                          e.base_price, self.interest_rate, self.loan_term_years)
            IN  IF ls.status # "ok"
                THEN /\ Raise(ls.status)
                     /\ UNCHANGED loop_vars
                ELSE IF els.status # "ok"
                THEN /\ Raise(els.status)
                     /\ loan_schedule' = ls.schedule
                     /\ ev_principal' = e.base_price
                     /\ UNCHANGED <<month, ev_loan_schedule, monthly_data>>
                ELSE /\ pc' = "loop"
                     /\ error' = "none"
                     /\ loan_schedule' = ls.schedule
                     /\ ev_principal' = e.base_price
                     /\ ev_loan_schedule' = els.schedule
                     /\ month' = 0
                     /\ monthly_data' = new_monthly_data(monthly_data)

\* the first call on a calculator
Enter(e, b, s, u, y) ==
    /\ pc = "constructed"
    /\ Begin(e, b, s, u, y)
    /\ UNCHANGED previous

\* a second call on the same calculator with the arguments of the first
CallAgain ==
    /\ pc = "returned"
    /\ previous = <<>>
    /\ previous' = <<monthly_data>>
    /\ Begin(ev, battery, solar, usage_profile, years)

\* lines 363-475: one iteration of the month loop
Iterate ==
    /\ pc = "loop"
    /\ month < months_of(years)
    /\ UNCHANGED <<am_in, am_out, main_vars, call_vars, loan_schedule, previous,
                   view_vars, arb_vars>>
    /\ LET replace == replacement_due(month)
           new_principal == IF replace THEN replacement_principal(ev)
                            ELSE ev_principal
           regenerated == generate_amortization_schedule(
                              new_principal, self.interest_rate,
                              self.loan_term_years)
       IN  IF replace /\ regenerated.status # "ok"
           THEN /\ Raise(regenerated.status)
                /\ ev_principal' = new_principal
                /\ UNCHANGED <<month, ev_loan_schedule, monthly_data>>
           ELSE /\ ev_principal' = new_principal
                /\ ev_loan_schedule' = IF replace THEN regenerated.schedule
                                       ELSE ev_loan_schedule
                /\ monthly_data' =
                       Append(monthly_data,
                              monthly_record(self, ev, battery, solar,
                                             usage_profile, month, loan_schedule,
                                             ev_loan_schedule'))
                /\ month' = month + 1
                /\ UNCHANGED <<pc, error>>

\* line 477
Return ==
    /\ pc = "loop"
    /\ ~(month < months_of(years))
    /\ pc' = "returned"
    /\ UNCHANGED <<error, am_in, am_out, main_vars, call_vars, loop_vars,
                   previous, view_vars, arb_vars>>

(***************************************************************************)
(* visualize_monthly_breakdown, lines 479-515.                             *)
(***************************************************************************)
\* lines 486-487
Components ==
    <<"Loan Payment", "EV Loan Payment", "EV Charging Cost", "EV Maintenance",
      "Solar Maintenance", "Battery Maintenance", "Total Costs",
      "Arbitrage", "Solar Export", "Power Savings", "Fuel Savings",
      "V2G Revenue", "Total Benefits", "Net Position">>

\* [x] * k
Repeat(x, k) == [i \in 1..k |-> x]

\* line 504
Measure ==
    Repeat("relative", 6) \o <<"total">> \o Repeat("relative", 5)
        \o <<"total", "total">>

\* lines 488-503, the mutant lists the costs without negating them
amounts_unsigned(data) ==
    <<data.costs.loan_payment,
      data.costs.ev_loan_payment,
      data.costs.ev_charging_cost,
      data.costs.maintenance_breakdown.ev_maintenance,
      data.costs.maintenance_breakdown.solar_maintenance,
      data.costs.maintenance_breakdown.battery_maintenance,
      R(0),
      data.benefits.arbitrage,
      data.benefits.solar_export,
      data.benefits.power_savings,
      data.benefits.fuel_savings,
      data.benefits.v2g_revenue,
      R(0),
      R(0)>>

initial_amounts(data) ==
    <<RNeg(data.costs.loan_payment),
      RNeg(data.costs.ev_loan_payment),
      RNeg(data.costs.ev_charging_cost),
      RNeg(data.costs.maintenance_breakdown.ev_maintenance),
      RNeg(data.costs.maintenance_breakdown.solar_maintenance),
      RNeg(data.costs.maintenance_breakdown.battery_maintenance),
      R(0),
      data.benefits.arbitrage,
      data.benefits.solar_export,
      data.benefits.power_savings,
      data.benefits.fuel_savings,
      data.benefits.v2g_revenue,
      R(0),
      R(0)>>

\* sum(amount[lo:hi]) of a 0-based list
slice_sum(amount, lo, hi) == RSum(SubSeq(amount, lo + 1, hi))

\* line 508, the mutant stops the slice one entry early
cost_slice_short(amount) == slice_sum(amount, 0, 5)

cost_slice_sum(amount) == slice_sum(amount, 0, 6)

\* line 511
benefit_slice_sum(amount) == slice_sum(amount, 7, 12)

\* lines 481-515: the dictionary the chart is drawn from
waterfall_data(data) ==
    LET amount0 == initial_amounts(data)
        total_costs == cost_slice_sum(amount0)
        amount1 == [amount0 EXCEPT ![7] = total_costs]
        total_benefits == benefit_slice_sum(amount1)
        amount2 == [amount1 EXCEPT ![13] = total_benefits]
        net_position == RAdd(total_costs, total_benefits)
    IN  [Components |-> Components,
         Amount |-> [amount2 EXCEPT ![14] = net_position],
         Measure |-> Measure]

\* the records main() and its charts are asked about
MonthIndices == {0, 11, 60, 71}

\* visualize_monthly_breakdown(monthly_data, month_index) on a returned result
Visualize(month_index) ==
    /\ pc = "returned"
    /\ UNCHANGED <<am_in, am_out, main_vars, call_vars, loop_vars, previous,
                   df_roi, df_annual, arb_vars>>
    /\ IF month_index < Len(monthly_data)
       THEN /\ waterfall' = [month_index |-> month_index,
                             data |-> waterfall_data(monthly_data[month_index + 1])]
            /\ pc' = "visualized"
            /\ UNCHANGED error
       ELSE \* line 481: list index out of range
            /\ Raise("IndexError")
            /\ UNCHANGED waterfall

(***************************************************************************)
(* main(), lines 746-817: the columns and the annual rollup derived from   *)
(* the result of calculate_detailed_roi.                                   *)
(***************************************************************************)
\* line 794: the lambda applied to the 'costs' of a record
record_total_costs(x) ==
    RAdd(RAdd(RAdd(x.loan_payment, x.ev_loan_payment), x.maintenance),
         x.ev_charging_cost)

\* line 795: the lambda applied to the 'benefits' of a record
record_total_benefits(x) == sum_benefits(x)

\* Series.cumsum(), line 797; the mutant leaves the current row out of its sum
cumsum_exclusive(column) ==
    LET run[k \in Nat, acc \in Rat, out \in Seq(Rat)] ==
            IF k > Len(column) THEN out
            ELSE run[k + 1, RAdd(acc, column[k]), Append(out, acc)]
    IN  run[1, R(0), <<>>]

cumsum(column) ==
    LET run[k \in Nat, acc \in Rat, out \in Seq(Rat)] ==
            IF k > Len(column) THEN out
            ELSE run[k + 1, RAdd(acc, column[k]),
                     Append(out, RAdd(acc, column[k]))]
    IN  run[1, R(0), <<>>]

\* astype(int) of a non-negative year, line 813; the mutant rounds to nearest
year_rounded(year) == (2 * year.n + year.d) \div (2 * year.d)

year_int_of(year) == year.n \div year.d

\* lines 793-798 and 813
main_df_roi(detailed_roi) ==
    LET rows == 1..Len(detailed_roi)
        net == [i \in rows |-> detailed_roi[i].net_position]
    IN  [total_costs |-> [i \in rows |-> record_total_costs(detailed_roi[i].costs)],
         total_benefits |->
             [i \in rows |-> record_total_benefits(detailed_roi[i].benefits)],
         net_position |-> net,
         cumulative_net_position |-> cumsum(net),
         year |-> [i \in rows |-> detailed_roi[i].year],
         year_int |-> [i \in rows |-> year_int_of(detailed_roi[i].year)]]

\* the keys of a groupby, in ascending order
sorted_keys(column) ==
    LET keys == {column[i] : i \in 1..Len(column)}
    IN  [j \in 1..Cardinality(keys) |->
            CHOOSE k \in keys : Cardinality({x \in keys : x < k}) = j - 1]

\* agg 'sum' of one column over the rows of one group
group_sum(key_column, value_column, key) ==
    LET run[k \in Nat, acc \in Rat] ==
            IF k > Len(value_column) THEN acc
            ELSE run[k + 1, IF key_column[k] = key
                            THEN RAdd(acc, value_column[k]) ELSE acc]
    IN  run[1, R(0)]

\* lines 814-817
main_df_annual(df) ==
    LET keys == sorted_keys(df.year_int)
    IN  [j \in 1..Len(keys) |->
            [year_int |-> keys[j],
             total_costs |-> group_sum(df.year_int, df.total_costs, keys[j]),
             total_benefits |-> group_sum(df.year_int, df.total_benefits, keys[j])]]

\* main() after calculate_detailed_roi has returned
MainCharts ==
    /\ pc = "returned"
    /\ UNCHANGED <<am_in, am_out, main_vars, call_vars, loop_vars, previous,
                   waterfall, arb_vars>>
    /\ IF monthly_data = <<>>
       THEN \* line 746: detailed_roi[0] of an empty list
            /\ Raise("IndexError")
            /\ UNCHANGED <<df_roi, df_annual>>
       ELSE /\ df_roi' = main_df_roi(monthly_data)
            /\ df_annual' = main_df_annual(df_roi')
            /\ pc' = "charted"
            /\ UNCHANGED error

Next ==
    \/ \E p \in Principals, r \in InterestRates, t \in ScheduleTerms : Schedule(p, r, t)
    \/ \E f \in Forms : Main(f)
    \/ \E cfg \in Configs : SetAttributes(cfg)
    \/ \E e \in EVPackages, b \in BatteryPackages, s \in SolarPackages,
          u \in UsageProfiles, y \in Horizons : Enter(e, b, s, u, y)
    \/ Iterate
    \/ Return
    \/ \E i \in MonthIndices : Visualize(i)
    \/ MainCharts
    \/ \E c \in Capacities, eff \in Efficiencies : Arbitrage(c, eff)

Spec == Init /\ [][Next]_vars

\* the form as main() first shows it
DefaultForms == {f \in Forms : f.loan_term_years = 10}

(***************************************************************************)
(* Two calls of calculate_detailed_roi on one calculator with the same     *)
(* arguments.                                                              *)
(***************************************************************************)
NextTwice ==
    \/ \E f \in DefaultForms : Main(f)
    \/ \E cfg \in Configs : SetAttributes(cfg)
    \/ \E e \in EVPackages, b \in BatteryPackages, s \in SolarPackages,
          u \in UsageProfiles, y \in Horizons : Enter(e, b, s, u, y)
    \/ Iterate
    \/ Return
    \/ CallAgain

SpecTwice == Init /\ [][NextTwice]_vars

(***************************************************************************)
(* One-year runs of calculators whose degradation rates lie strictly       *)
(* between 0 and 1, or at either end.                                      *)
(***************************************************************************)
NextFade ==
    \/ \E f \in DefaultForms : Main(f)
    \/ \E cfg \in FadeConfigs : SetAttributes(cfg)
    \/ \E e \in EVPackages, b \in BatteryPackages, s \in SolarPackages,
          u \in UsageProfiles, y \in FadeHorizons : Enter(e, b, s, u, y)
    \/ Iterate
    \/ Return

SpecFade == Init /\ [][NextFade]_vars

(***************************************************************************)
(* Properties.                                                             *)
(***************************************************************************)
InSimulation == pc \in {"loop", "returned"}

Called == pc \in {"loop", "returned", "raised"}

ScheduleDone == pc = "schedule_done"

\* C1: whenever calculate_detailed_roi returns for a horizon of Y >= 1 years
\* the result has exactly Y*12 records, and at every point of the run the
\* records appended so far carry the months 0, 1, 2, ... in order, without a
\* gap or a repetition (the replacement month 60 included).
C1_MonthsContiguous ==
    /\ InSimulation =>
          \A i \in 1..Len(monthly_data) : monthly_data[i].month = i - 1
    /\ (pc = "returned" /\ years >= 1) => Len(monthly_data) = years * 12

\* a six-year run has returned: 72 records, month 60 among them
C1_Witness ==
    /\ pc = "returned"
    /\ years = 6
    /\ Len(monthly_data) = 72
    /\ monthly_data[61].month = ev_replacement_month

\* C2: once the replacement of month 60 has happened (EV price >= 0), the EV
\* payment recorded
\* for month 60+k is the payment of period k+1 of the regenerated schedule,
\* for every k below the loan term that lies inside the horizon, and when the
\* financed amount changed the payment of the prior schedule (as recorded for
\* month 0) differs from the payment recorded for month 60.
C2_NewScheduleStartsAtReplacement ==
    (InSimulation /\ month > ev_replacement_month /\ RLe(R(0), ev.base_price)) =>
        /\ \A k \in 0..(self.loan_term_years * 12 - 1) :
              ev_replacement_month + k < Len(monthly_data) =>
                  monthly_data[ev_replacement_month + k + 1].costs.ev_loan_payment
                      = ev_loan_schedule[k + 1].total_payment
        /\ ev_principal # ev.base_price =>
              monthly_data[1].costs.ev_loan_payment
                  # monthly_data[ev_replacement_month + 1].costs.ev_loan_payment

\* C3: a call of generate_amortization_schedule with rate 0, a principal >= 0
\* and a positive term returns the straight-line schedule (every payment principal/n, no
\* interest), and no ZeroDivisionError ends a schedule call or a simulation
\* whose interest rate is 0.
C3_ZeroRateFallback ==
    /\ (ScheduleDone /\ am_in.annual_interest_rate = R(0)
            /\ RLe(R(0), am_in.principal) /\ am_in.loan_term_years > 0) =>
          /\ am_out.status = "ok"
          /\ Len(am_out.schedule) = am_in.loan_term_years * 12
          /\ \A k \in 1..Len(am_out.schedule) :
                /\ am_out.schedule[k].total_payment =
                       RDiv(am_in.principal, R(am_in.loan_term_years * 12))
                /\ am_out.schedule[k].interest_payment = R(0)
    /\ (pc = "raised" /\ HasConfig(self) /\ self.interest_rate = R(0)) =>
          error # "ZeroDivisionError"

\* the inputs of the current calculate_detailed_roi call are valid
ValidInputs ==
    /\ years >= 1
    /\ RLe(R(0), ev.base_price)
    /\ RLe(R(0), ev.battery_capacity)
    /\ RLe(R(0), battery.capacity)
    /\ RLe(R(0), battery.base_price)
    /\ RLe(R(0), solar.capacity)
    /\ RLe(R(0), solar.base_price)

\* the configuration handed to the constructor is valid
ValidCtorArgs ==
    /\ RLt(R(0), ctor_args.interest_rate)
    /\ ctor_args.loan_term_years > 0

\* C4: a calculate_detailed_roi call on a calculator that was built by the
\* constructor alone, from a valid configuration and with valid inputs, does
\* not end in an error.
C4_ConstructedCalculatorRuns ==
    (Called /\ self = ROICalculator_init(ctor_args) /\ ValidCtorArgs /\ ValidInputs)
        => pc # "raised"

\* C5: a calculate_detailed_roi call with a negative capacity, a negative
\* price or a non-positive horizon ends in an error before the first month:
\* it never enters the month loop and never returns.
C5_InvalidInputRejected ==
    (Called /\ ~ValidInputs) => pc = "raised"

\* C6: generate_amortization_schedule called with a negative principal or a
\* non-positive term ends in an error and returns no schedule.
C6_InvalidLoanRejected ==
    (ScheduleDone /\ (RLt(am_in.principal, R(0)) \/ am_in.loan_term_years <= 0))
        => am_out.status # "ok"

\* the balance before period k of a schedule for the given principal
BalanceBefore(schedule, principal, k) ==
    IF k = 1 THEN principal ELSE schedule[k - 1].remaining_principal

\* C7: for principal >= 0, rate > 0 and a positive term of n months the
\* schedule has n periods numbered 1..n, one total_payment for all of them,
\* interest = balance before the period * rate/12, principal portion =
\* total_payment - interest, and balance after = balance before - principal
\* portion.
C7_ScheduleShape ==
    (ScheduleDone /\ RLe(R(0), am_in.principal)
        /\ RLt(R(0), am_in.annual_interest_rate) /\ am_in.loan_term_years > 0) =>
        /\ am_out.status = "ok"
        /\ Len(am_out.schedule) = am_in.loan_term_years * 12
        /\ \A k \in 1..Len(am_out.schedule) :
              LET row == am_out.schedule[k]
                  before == BalanceBefore(am_out.schedule, am_in.principal, k)
              IN  /\ row.month = k
                  /\ row.total_payment = am_out.schedule[1].total_payment
                  /\ row.interest_payment =
                         RMul(before, RDiv(am_in.annual_interest_rate, R(12)))
                  /\ row.principal_payment =
                         RSub(row.total_payment, row.interest_payment)
                  /\ row.remaining_principal = RSub(before, row.principal_payment)

\* a one-year schedule for a positive principal at a positive rate was returned
C7_Witness ==
    /\ ScheduleDone
    /\ am_in.principal = R(255)
    /\ am_in.annual_interest_rate = R(12)
    /\ am_in.loan_term_years = 1
    /\ am_out.status = "ok"
    /\ Len(am_out.schedule) = 12
    /\ RLt(R(0), am_out.schedule[12].interest_payment)

\* C8: for principal >= 0, rate >= 0 and a positive term the call returns a
\* schedule whose principal portions sum to the principal and whose last
\* balance is zero.
C8_PrincipalRepaid ==
    (ScheduleDone /\ RLe(R(0), am_in.principal)
        /\ RLe(R(0), am_in.annual_interest_rate) /\ am_in.loan_term_years > 0) =>
        /\ am_out.status = "ok"
        /\ RSum([k \in 1..Len(am_out.schedule) |->
                    am_out.schedule[k].principal_payment]) = am_in.principal
        /\ am_out.schedule[Len(am_out.schedule)].remaining_principal = R(0)

\* C9: in every record net_position = (arbitrage + solar_export +
\* power_savings + fuel_savings + v2g_revenue) - (loan_payment +
\* ev_loan_payment + maintenance + ev_charging_cost), with maintenance the sum
\* of the three maintenance_breakdown entries.
C9_NetPosition ==
    InSimulation =>
        \A i \in 1..Len(monthly_data) :
            LET rec == monthly_data[i]
                benefits == RAdd(rec.benefits.arbitrage,
                            RAdd(rec.benefits.solar_export,
                            RAdd(rec.benefits.power_savings,
                            RAdd(rec.benefits.fuel_savings,
                                 rec.benefits.v2g_revenue))))
                costs == RAdd(rec.costs.loan_payment,
                         RAdd(rec.costs.ev_loan_payment,
                         RAdd(rec.costs.maintenance, rec.costs.ev_charging_cost)))
            IN  /\ rec.net_position = RSub(benefits, costs)
                /\ rec.costs.maintenance =
                       RAdd(rec.costs.maintenance_breakdown.ev_maintenance,
                       RAdd(rec.costs.maintenance_breakdown.solar_maintenance,
                            rec.costs.maintenance_breakdown.battery_maintenance))

\* a run has returned whose first record has loan payments, a charging cost
\* and benefits, none of them zero
C9_Witness ==
    /\ pc = "returned"
    /\ Len(monthly_data) >= 12
    /\ RLt(R(0), monthly_data[1].costs.ev_charging_cost)
    /\ RLt(R(0), monthly_data[1].costs.loan_payment)
    /\ RLt(R(0), monthly_data[1].costs.ev_loan_payment)
    /\ RLt(R(0), monthly_data[1].benefits.arbitrage)

\* x is a fraction in [0, 1]
IsFraction(x) == RLe(R(0), x) /\ RLe(x, R(1))

\* C10: every rate the form collects as a percentage is handed to
\* ROICalculator divided by 100, as a fraction in [0, 1].
C10_RatesAreFractions ==
    (pc \in {"constructed", "loop", "returned", "raised"}) =>
        /\ ctor_args.interest_rate = RDiv(form.interest_rate, R(100))
        /\ ctor_args.power_price_inflation = RDiv(form.power_price_inflation, R(100))
        /\ ctor_args.fuel_price_inflation = RDiv(form.fuel_price_inflation, R(100))
        /\ ctor_args.maintenance_costs.battery.degradation =
               RDiv(form.battery_degradation, R(100))
        /\ ctor_args.maintenance_costs.solar.degradation =
               RDiv(form.solar_degradation, R(100))
        /\ ctor_args.maintenance_costs.ev.battery_degradation =
               RDiv(form.ev_battery_degradation, R(100))
        /\ IsFraction(ctor_args.interest_rate)
        /\ IsFraction(ctor_args.power_price_inflation)
        /\ IsFraction(ctor_args.fuel_price_inflation)

(***************************************************************************)
(* The monthly waterfall.                                                  *)
(***************************************************************************)
Visualized == pc = "visualized"

\* the record the waterfall was built from
ShownRecord == monthly_data[waterfall.month_index + 1]

\* the position of a label in the waterfall
PositionOf(label) ==
    CHOOSE i \in 1..Len(waterfall.data.Components) :
        waterfall.data.Components[i] = label

\* C11: in the waterfall of a month the 'Total Costs' entry is the sum of the
\* cost entries before it, the 'Total Benefits' entry is the sum of the benefit
\* entries between the two subtotals, and the 'Net Position' entry is the sum
\* of the two subtotals and equals the net_position of the record shown.
C11_WaterfallTotals ==
    Visualized =>
        LET amount == waterfall.data.Amount
            tc == PositionOf("Total Costs")
            tb == PositionOf("Total Benefits")
            np == PositionOf("Net Position")
        IN  /\ amount[tc] = RSum(SubSeq(amount, 1, tc - 1))
            /\ amount[tb] = RSum(SubSeq(amount, tc + 1, tb - 1))
            /\ amount[np] = RAdd(amount[tc], amount[tb])
            /\ amount[np] = ShownRecord.net_position

\* the waterfall of the last month that carries loan payments, in which every
\* cost entry is negative and the net position is not zero
C11_Witness ==
    /\ Visualized
    /\ waterfall.month_index = 11
    /\ \A i \in 1..6 : RLt(waterfall.data.Amount[i], R(0))
    /\ waterfall.data.Amount[14] # R(0)

CostLabels ==
    <<"Loan Payment", "EV Loan Payment", "EV Charging Cost", "EV Maintenance",
      "Solar Maintenance", "Battery Maintenance">>

BenefitLabels ==
    <<"Arbitrage", "Solar Export", "Power Savings", "Fuel Savings", "V2G Revenue">>

\* the cost and benefit components of a record, in the order of the labels
CostComponents(rec) ==
    <<rec.costs.loan_payment, rec.costs.ev_loan_payment,
      rec.costs.ev_charging_cost,
      rec.costs.maintenance_breakdown.ev_maintenance,
      rec.costs.maintenance_breakdown.solar_maintenance,
      rec.costs.maintenance_breakdown.battery_maintenance>>

BenefitComponents(rec) ==
    <<rec.benefits.arbitrage, rec.benefits.solar_export,
      rec.benefits.power_savings, rec.benefits.fuel_savings,
      rec.benefits.v2g_revenue>>

\* C12: the waterfall is the ordered list of every cost component once, negated
\* and of kind 'relative', one cost subtotal, every benefit component once,
\* positive and of kind 'relative', one benefit subtotal and one final total;
\* labels, amounts and kinds have the same length and no component of the
\* record is missing or repeated.
C12_WaterfallLayout ==
    Visualized =>
        LET w == waterfall.data
            nc == Len(CostLabels)
            nb == Len(BenefitLabels)
        IN  /\ w.Components = CostLabels \o <<"Total Costs">> \o BenefitLabels
                                  \o <<"Total Benefits", "Net Position">>
            /\ Len(w.Amount) = Len(w.Components)
            /\ Len(w.Measure) = Len(w.Components)
            /\ \A i, j \in 1..Len(w.Components) :
                   w.Components[i] = w.Components[j] => i = j
            /\ \A i \in 1..nc :
                   /\ w.Amount[i] = RNeg(CostComponents(ShownRecord)[i])
                   /\ w.Measure[i] = "relative"
            /\ \A i \in 1..nb :
                   /\ w.Amount[nc + 1 + i] = BenefitComponents(ShownRecord)[i]
                   /\ w.Measure[nc + 1 + i] = "relative"
            /\ \A i \in 1..Len(w.Measure) :
                   w.Measure[i] = "total" <=> i \in {nc + 1, nc + nb + 2, nc + nb + 3}
            /\ Cardinality(DOMAIN ShownRecord.benefits) = nb
            /\ Cardinality(DOMAIN ShownRecord.costs.maintenance_breakdown) = 3

\* the waterfall of the first month of a run whose costs and benefits are all
\* non-zero
C12_Witness ==
    /\ Visualized
    /\ waterfall.month_index = 0
    /\ \A i \in 1..6 : CostComponents(ShownRecord)[i] # R(0)
    /\ \A i \in 1..5 : BenefitComponents(ShownRecord)[i] # R(0)

(***************************************************************************)
(* The columns and the annual rollup of main().                            *)
(***************************************************************************)
Charted == pc = "charted"

\* C13: the cumulative net position at month k is the sum of net_position over
\* months 0..k: cumulative(0) = net_position(0) and cumulative(k) =
\* cumulative(k-1) + net_position(k).
C13_CumulativeNetPosition ==
    Charted =>
        LET cumulative == df_roi.cumulative_net_position
            net == [i \in 1..Len(monthly_data) |-> monthly_data[i].net_position]
        IN  /\ Len(cumulative) = Len(monthly_data)
            /\ cumulative[1] = net[1]
            /\ \A k \in 2..Len(net) :
                   cumulative[k] = RAdd(cumulative[k - 1], net[k])
            /\ \A k \in 1..Len(net) : cumulative[k] = RSum(SubSeq(net, 1, k))

\* a result of six years or more was charted, with net positions that differ
\* from month to month
C13_Witness ==
    /\ Charted
    /\ Len(monthly_data) >= 72
    /\ monthly_data[1].net_position # monthly_data[13].net_position
    /\ monthly_data[1].net_position # R(0)
    /\ monthly_data[61].net_position # R(0)

\* the records of months 12g .. 12g+11
YearOf(g) == SubSeq(monthly_data, 12 * g + 1, 12 * g + 12)

RecordCosts(rec) ==
    RAdd(rec.costs.loan_payment,
    RAdd(rec.costs.ev_loan_payment,
    RAdd(rec.costs.maintenance, rec.costs.ev_charging_cost)))

RecordBenefits(rec) ==
    RAdd(rec.benefits.arbitrage,
    RAdd(rec.benefits.solar_export,
    RAdd(rec.benefits.power_savings,
    RAdd(rec.benefits.fuel_savings, rec.benefits.v2g_revenue))))

\* C14: the annual rollup puts the record of month m in group floor(m/12);
\* group g holds exactly the twelve records 12g .. 12g+11, every record is in
\* exactly one group, the totals of a group are the sums of its records'
\* costs and benefits, and the sum over all groups of (benefits - costs) is
\* the final cumulative net position.
C14_AnnualRollup ==
    Charted =>
        /\ \A i \in 1..Len(monthly_data) :
               /\ df_roi.year_int[i] = (monthly_data[i].month) \div 12
               /\ Cardinality({j \in 1..Len(df_annual) :
                                   df_annual[j].year_int = df_roi.year_int[i]}) = 1
        /\ Len(df_annual) = years
        /\ \A g \in 0..(years - 1) :
               LET row == df_annual[g + 1]
                   members == {i \in 1..Len(monthly_data) : df_roi.year_int[i] = g}
               IN  /\ row.year_int = g
                   /\ members = (12 * g + 1)..(12 * g + 12)
                   /\ row.total_costs =
                          RSum([i \in 1..12 |-> RecordCosts(YearOf(g)[i])])
                   /\ row.total_benefits =
                          RSum([i \in 1..12 |-> RecordBenefits(YearOf(g)[i])])
        /\ RSum([j \in 1..Len(df_annual) |->
                    RSub(df_annual[j].total_benefits, df_annual[j].total_costs)])
               = df_roi.cumulative_net_position[Len(monthly_data)]

\* a rollup of six groups or more whose first and second groups differ
C14_Witness ==
    /\ Charted
    /\ Len(df_annual) >= 6
    /\ df_annual[1].total_costs # df_annual[2].total_costs
    /\ df_annual[1].total_benefits # df_annual[2].total_benefits

(***************************************************************************)
(* Repeated calls.                                                         *)
(***************************************************************************)
SecondCall == previous # <<>>

\* C15: two calls of calculate_detailed_roi with identical arguments on the
\* same calculator return identical sequences of records; nothing the first
\* call leaves behind changes what the second produces.
C15_Repeatable ==
    /\ (SecondCall /\ pc = "loop") =>
           /\ Len(monthly_data) <= Len(previous[1])
           /\ monthly_data = SubSeq(previous[1], 1, Len(monthly_data))
    /\ (SecondCall /\ pc = "returned") => monthly_data = previous[1]
    /\ (SecondCall /\ pc = "raised") => FALSE

\* a second call has returned six years of records, the EV having been
\* replaced in both calls
C15_Witness ==
    /\ SecondCall
    /\ pc = "returned"
    /\ Len(monthly_data) >= 72
    /\ ev_principal # ev.base_price

(***************************************************************************)
(* Degradation.                                                            *)
(***************************************************************************)
\* the health column follows 100 * (1 - rate) ** (month/12): it starts at 100
\* and is multiplied every month by the same q >= 0 with q ** 12 = 1 - rate
FollowsDecay(health, rate) ==
    /\ Len(health) >= 1 => health[1] = R(100)
    /\ Len(health) >= 2 =>
           LET q == RDiv(health[2], R(100))
           IN  /\ RLe(R(0), q)
               /\ RPowNat(q, 12) = RSub(R(1), rate)
               /\ \A i \in 1..(Len(health) - 1) : health[i + 1] = RMul(health[i], q)

StrictlyDecreasing(health) ==
    \A i \in 1..(Len(health) - 1) : RLt(health[i + 1], health[i])

Constant100(health) == \A i \in 1..Len(health) : health[i] = R(100)

BatteryHealth == [i \in 1..Len(monthly_data) |-> monthly_data[i].battery_health]

SolarHealth == [i \in 1..Len(monthly_data) |-> monthly_data[i].solar_health]

BatteryRate == self.maintenance_costs.battery.degradation

SolarRate == self.maintenance_costs.solar.degradation

\* C16 as stated: battery_health and solar_health are 100 * (1 - rate) **
\* (month/12), both are 100 at month 0, and for every rate > 0 each is
\* strictly decreasing from month to month (constant 100 for rate 0); stated
\* for calls with valid inputs.
C16_HealthAsStated ==
    (InSimulation /\ ValidInputs) =>
        /\ FollowsDecay(BatteryHealth, BatteryRate)
        /\ FollowsDecay(SolarHealth, SolarRate)
        /\ RLt(R(0), BatteryRate) => StrictlyDecreasing(BatteryHealth)
        /\ RLt(R(0), SolarRate) => StrictlyDecreasing(SolarHealth)
        /\ BatteryRate = R(0) => Constant100(BatteryHealth)
        /\ SolarRate = R(0) => Constant100(SolarHealth)

\* from the second record on the column is 0
ZeroAfterFirst(health) == \A i \in 2..Len(health) : health[i] = R(0)

\* C16 amended: battery_health and solar_health are 100 * (1 - rate) **
\* (month/12) and 100 at month 0; each is strictly decreasing from month to
\* month for a rate strictly between 0 and 1, constant 100 for rate 0, and 0
\* from month 1 on for rate 1.
C16_HealthDecay ==
    InSimulation =>
        /\ FollowsDecay(BatteryHealth, BatteryRate)
        /\ FollowsDecay(SolarHealth, SolarRate)
        /\ (RLt(R(0), BatteryRate) /\ RLt(BatteryRate, R(1))) =>
               StrictlyDecreasing(BatteryHealth)
        /\ (RLt(R(0), SolarRate) /\ RLt(SolarRate, R(1))) =>
               StrictlyDecreasing(SolarHealth)
        /\ BatteryRate = R(0) => Constant100(BatteryHealth)
        /\ SolarRate = R(0) => Constant100(SolarHealth)
        /\ BatteryRate = R(1) => ZeroAfterFirst(BatteryHealth)
        /\ SolarRate = R(1) => ZeroAfterFirst(SolarHealth)

\* a year has been simulated with a battery rate strictly between 0 and 1 and
\* a solar rate of 1: the battery health has halved eleven times
C16_Witness ==
    /\ pc = "returned"
    /\ Len(monthly_data) = 12
    /\ RLt(R(0), BatteryRate) /\ RLt(BatteryRate, R(1))
    /\ SolarRate = R(1)
    /\ monthly_data[12].battery_health = Q(100, 2048)
    /\ monthly_data[12].solar_health = R(0)

(***************************************************************************)
(* Arbitrage.                                                              *)
(***************************************************************************)
ArbitrageDone == pc = "arbitrage_done"

\* C17: calculate_arbitrage_potential(capacity, efficiency) returns capacity *
\* efficiency * (peak tariff - off-peak tariff) * 30, one full cycle a day; it
\* leaves the pricing object as it was and returns 0 for capacity 0; for
\* capacity 10, efficiency 0.95 and tariffs 0.30 and 0.15 it returns 42.75.
C17_ArbitragePotential ==
    ArbitrageDone =>
        LET spread == RSub(Q(30, 100), Q(15, 100))
        IN  /\ arb_out = RMul(RMul(RMul(arb_in.battery_capacity, arb_in.efficiency),
                                   spread), R(30))
            /\ aemo = [tariff_rates |-> [peak |-> Q(30, 100), off_peak |-> Q(15, 100)],
                       feed_in_tariff |-> Q(10, 100)]
            /\ arb_in.battery_capacity = R(0) => arb_out = R(0)
            /\ (arb_in.battery_capacity = R(10) /\ arb_in.efficiency = Q(95, 100))
                   => arb_out = Q(4275, 100)

\* the call with capacity 10 and efficiency 0.95 has returned 42.75
C17_Witness ==
    /\ ArbitrageDone
    /\ arb_in = [battery_capacity |-> R(10), efficiency |-> Q(95, 100)]
    /\ arb_out = Q(171, 4)

(***************************************************************************)
(* The solar/battery loan inside the simulation.                           *)
(***************************************************************************)
\* months of the solar/battery loan
LoanPeriods == self.loan_term_years * 12

\* the period of the loan schedule the record of month m was charged, 0 if none
ChargedPeriod(m) == IF m < LoanPeriods THEN m + 1 ELSE 0

\* C18: the solar/battery loan payment recorded for month m is that of period
\* m+1 of the loan schedule for m < loan_term_years*12 and 0 from then on;
\* when the horizon is at least the loan term every period is charged exactly
\* once and the principal portions charged sum to the loan principal.
C18_LoanPayments ==
    InSimulation =>
        /\ Len(loan_schedule) = LoanPeriods
        /\ \A k \in 1..Len(loan_schedule) : loan_schedule[k].month = k
        /\ \A i \in 1..Len(monthly_data) :
               LET m == monthly_data[i].month
               IN  monthly_data[i].costs.loan_payment =
                       IF ChargedPeriod(m) = 0 THEN R(0)
                       ELSE loan_schedule[ChargedPeriod(m)].total_payment
        /\ (pc = "returned" /\ years >= self.loan_term_years) =>
               /\ \A k \in 1..LoanPeriods :
                      Cardinality({i \in 1..Len(monthly_data) :
                          ChargedPeriod(monthly_data[i].month) = k}) = 1
               /\ RSum([i \in 1..LoanPeriods |->
                          loan_schedule[ChargedPeriod(monthly_data[i].month)]
                              .principal_payment])
                      = RAdd(RAdd(battery.base_price, solar.base_price),
                             calculate_total_installation_cost(
                                 self, solar.capacity, battery.capacity))

\* a run longer than its loan has returned: the last period carries a payment
\* and the month after it carries none
C18_Witness ==
    /\ pc = "returned"
    /\ Len(monthly_data) > LoanPeriods
    /\ RLt(R(0), monthly_data[LoanPeriods].costs.loan_payment)
    /\ monthly_data[LoanPeriods + 1].costs.loan_payment = R(0)

(***************************************************************************)
(* What the loop carries from month to month.                              *)
(***************************************************************************)
EVCarriedChanges ==
    ev_principal' # ev_principal \/ ev_loan_schedule' # ev_loan_schedule

\* C19: an iteration of the month loop never changes the solar/battery loan
\* schedule; it changes the EV principal or the EV loan schedule only in the
\* iteration of month 60, which a run meets at most once (months only go up by
\* one) and only when its horizon exceeds 5 years.
C19_CarriedState ==
    [][pc = "loop" =>
          /\ loan_schedule' = loan_schedule
          /\ month' \in {month, month + 1}
          /\ month # 60 => ~EVCarriedChanges
          /\ EVCarriedChanges => (month = 60 /\ years > 5 /\ month' = 61)]_vars

\* the iteration after the replacement: the EV principal is no longer the
\* price of the EV the run started with
C19_Witness ==
    /\ pc = "loop"
    /\ month = 61
    /\ ev_principal # ev.base_price
    /\ ev_loan_schedule # <<>>
    /\ RLt(R(0), ev_principal)

====
